---- MODULE Spec2Model ----
(***************************************************************************)
(* Model of engine/queue/queue_imp.go (package queue, type queueImp): the  *)
(* queue facade over the broker registry (kafka.Manager), the extended     *)
(* metadata store (kafka.ExtendManager), the producer, the consumer cache  *)
(* and the metrics monitor.                                                *)
(*                                                                         *)
(* Every facade method is a sequence of steps, one per call into a         *)
(* collaborator (or per lock operation); the position of each calling      *)
(* goroutine is pc[t].  A collaborator call may fail (faults counts the    *)
(* failures injected so far).                                              *)
(***************************************************************************)
EXTENDS Integers, Sequences, FiniteSets, TLC

\* ------------------------------------------------------------------ bounds
NumThreads == 2
MaxFaults == 1
MaxStat == 1

Threads == 1..NumThreads

\* ------------------------------------------------------------------- names
\* A name is a Go string, modelled as the sequence of its characters.
Empty == <<>>
NameA == <<"a">>
NameAtA == <<"a", "@", "a">>
AllNames == {Empty, NameA, NameAtA}
AllPairs == AllNames \X AllNames

\* A group's configuration: write, read, url, ips.
NoCfg == [write |-> FALSE, read |-> FALSE, url |-> "", ips |-> <<>>, present |-> FALSE]
CfgRW == [write |-> TRUE, read |-> TRUE, url |-> "u1", ips |-> <<"ip1">>, present |-> TRUE]
CfgRO == [write |-> FALSE, read |-> TRUE, url |-> "u2", ips |-> <<>>, present |-> TRUE]
Cfgs == {CfgRW, CfgRO}

VARIABLES
    topics,       \* broker registry: the topics that exist now
    cache,        \* kafka.Manager's client-side view of the registry (not refreshed)
    metaQueues,   \* extended metadata: the queue records
    groupCfg,     \* extended metadata: <<group, queue>> -> config (NoCfg: no record)
    consumerMap,  \* queueImp.consumerMap: id -> index into sessions
    sessions,     \* the consumer sessions constructed so far, in order
    mu,           \* queueImp.mu: 0 = unlocked, t = held by goroutine t
    sendStat,     \* monitor: <<queue, group>> -> sends counted
    recvStat,     \* monitor: <<queue, group>> -> receives counted
    faults,       \* collaborator calls that have failed so far
    pc,           \* per goroutine: "idle" or the step it is about to take
    call,         \* per goroutine: the current (or last) call and its arguments
    ret,          \* per goroutine: the error returned by the last call
    out,          \* per goroutine: the value returned by the last call
    cons,         \* per goroutine: ReceiveMsg's local variable consumer
    pre,          \* per goroutine: the stores as they were when the call began
    prev          \* per goroutine: the call completed before the current one

stores == <<topics, cache, metaQueues, groupCfg>>
msgs == <<consumerMap, sessions, mu, sendStat, recvStat>>
locals == <<pc, call, ret, out, cons, pre, prev>>
vars == <<topics, cache, metaQueues, groupCfg, consumerMap, sessions, mu,
          sendStat, recvStat, faults, pc, call, ret, out, cons, pre, prev>>

NoCall == [op |-> "none", queue |-> Empty, group |-> Empty, cfg |-> NoCfg]
NoPrev == [op |-> "none", queue |-> Empty, ret |-> "none"]
Snapshot == [topics |-> topics, metaQueues |-> metaQueues, groupCfg |-> groupCfg]

Init ==
    /\ topics = {}
    /\ cache = {}
    /\ metaQueues = {}
    /\ groupCfg = [p \in AllPairs |-> NoCfg]
    /\ consumerMap = [k \in {} |-> 0]
    /\ sessions = <<>>
    /\ mu = 0
    /\ sendStat = [p \in AllPairs |-> 0]
    /\ recvStat = [p \in AllPairs |-> 0]
    /\ faults = 0
    /\ pc = [t \in Threads |-> "idle"]
    /\ call = [t \in Threads |-> NoCall]
    /\ ret = [t \in Threads |-> "none"]
    /\ out = [t \in Threads |-> <<>>]
    /\ cons = [t \in Threads |-> 0]
    /\ pre = [t \in Threads |-> Snapshot]
    /\ prev = [t \in Threads |-> NoPrev]

\* ------------------------------------------------------------ collaborators
\* Whether the next collaborator call may fail.
FailChoices == IF faults < MaxFaults THEN {FALSE, TRUE} ELSE {FALSE}
Fault(fail) == faults' = IF fail THEN faults + 1 ELSE faults

\* kafka.Manager.ExistTopic(name, refresh): with refresh the client view is
\* reloaded from the registry first; without, the client view answers.
ExistTopic(name, refresh) == IF refresh THEN name \in topics ELSE name \in cache
ExistTopicRefresh(refresh, fail) == cache' = IF refresh /\ ~fail THEN topics ELSE cache

\* kafka.ExtendManager.ExistQueue(name)
ExistQueue(name) == name \in metaQueues

\* ------------------------------------------------------------ call and return
Return(t, err) ==
    /\ pc' = [pc EXCEPT ![t] = "idle"]
    /\ ret' = [ret EXCEPT ![t] = err]

Goto(t, step) ==
    /\ pc' = [pc EXCEPT ![t] = step]
    /\ UNCHANGED ret

\* A goroutine enters a facade method.
Begin(t, op, q, g, c, first) ==
    /\ pc[t] = "idle"
    /\ pc' = [pc EXCEPT ![t] = first]
    /\ call' = [call EXCEPT ![t] = [op |-> op, queue |-> q, group |-> g, cfg |-> c]]
    /\ ret' = [ret EXCEPT ![t] = "pending"]
    /\ out' = [out EXCEPT ![t] = <<>>]
    /\ cons' = [cons EXCEPT ![t] = 0]
    /\ UNCHANGED <<stores, msgs, faults>>

\* History for the claims about what a call changed: the stores as the call began.
TrackPre(t) == pre' = [pre EXCEPT ![t] = Snapshot]

\* History for the claims about consecutive calls: the call that completed before
\* the one now beginning.
TrackPrev(t) ==
    prev' = [prev EXCEPT ![t] =
               [op |-> call[t].op, queue |-> call[t].queue, ret |-> ret[t]]]

Returned(t, op) == pc[t] = "idle" /\ call[t].op = op

\* ------------------------------------------------------------------- Create
\* Lines 94-96: for an empty name errors.NotValidf(...) builds an error that is
\* neither returned nor stored; control reaches line 99 for every name.
CreateFirst(queue) == IF Len(queue) = 0 THEN "create_existTopic" ELSE "create_existTopic"

CallCreate(t, Qs) ==
    \E q \in Qs : Begin(t, "Create", q, Empty, NoCfg, CreateFirst(q))

\* Lines 99-105.
CreateExistTopic(t) ==
    /\ pc[t] = "create_existTopic"
    /\ \E fail \in FailChoices :
        /\ Fault(fail)
        /\ ExistTopicRefresh(TRUE, fail)
        /\ IF fail THEN Return(t, "err:ExistTopic")
           ELSE IF ExistTopic(call[t].queue, TRUE) THEN Return(t, "AlreadyExists")
           ELSE Goto(t, "create_existQueue")
    /\ UNCHANGED <<topics, metaQueues, groupCfg, msgs, call, out, cons, pre, prev>>

\* Variant of CreateExistQueue that forgets the "if exist" return of lines 112-114.
CreateExistQueueNoCheck(t) ==
    /\ pc[t] = "create_existQueue"
    /\ \E fail \in FailChoices :
        /\ Fault(fail)
        /\ IF fail THEN Return(t, "err:ExistQueue")
           ELSE Goto(t, "create_addQueue")
    /\ UNCHANGED <<stores, msgs, call, out, cons, pre, prev>>

\* Lines 108-114.
CreateExistQueue(t) ==
    /\ pc[t] = "create_existQueue"
    /\ \E fail \in FailChoices :
        /\ Fault(fail)
        /\ IF fail THEN Return(t, "err:ExistQueue")
           ELSE IF ExistQueue(call[t].queue) THEN Return(t, "AlreadyExists")
           ELSE Goto(t, "create_addQueue")
    /\ UNCHANGED <<stores, msgs, call, out, cons, pre, prev>>

\* Lines 116-118.
CreateAddQueue(t) ==
    /\ pc[t] = "create_addQueue"
    /\ \E fail \in FailChoices :
        /\ Fault(fail)
        /\ IF fail
           THEN Return(t, "err:AddQueue") /\ UNCHANGED metaQueues
           ELSE /\ metaQueues' = metaQueues \cup {call[t].queue}
                /\ Goto(t, "create_createTopic")
    /\ UNCHANGED <<topics, cache, groupCfg, msgs, call, out, cons, pre, prev>>

\* Variant of CreateCreateTopic that rolls the metadata record back when the
\* registry step fails.
CreateCreateTopicRollback(t) ==
    /\ pc[t] = "create_createTopic"
    /\ \E fail \in FailChoices :
        /\ Fault(fail)
        /\ IF fail
           THEN /\ Return(t, "err:CreateTopic")
                /\ metaQueues' = metaQueues \ {call[t].queue}
                /\ UNCHANGED topics
           ELSE /\ topics' = topics \cup {call[t].queue}
                /\ Return(t, "nil")
                /\ UNCHANGED metaQueues
    /\ UNCHANGED <<cache, groupCfg, msgs, call, out, cons, pre, prev>>

\* Lines 119-120.
CreateCreateTopic(t) ==
    /\ pc[t] = "create_createTopic"
    /\ \E fail \in FailChoices :
        /\ Fault(fail)
        /\ IF fail
           THEN Return(t, "err:CreateTopic") /\ UNCHANGED topics
           ELSE /\ topics' = topics \cup {call[t].queue}
                /\ Return(t, "nil")
    /\ UNCHANGED <<cache, metaQueues, groupCfg, msgs, call, out, cons, pre, prev>>

\* ------------------------------------------------------------------- Update
\* Lines 126-128: the NotValidf error is discarded, as in Create.
UpdateFirst(queue) == IF Len(queue) = 0 THEN "update_existTopic" ELSE "update_existTopic"

CallUpdate(t, Qs) ==
    \E q \in Qs : Begin(t, "Update", q, Empty, NoCfg, UpdateFirst(q))

\* Variant of UpdateExistTopic that creates the topic when it is missing.
UpdateExistTopicUpsert(t) ==
    /\ pc[t] = "update_existTopic"
    /\ \E fail \in FailChoices :
        /\ Fault(fail)
        /\ ExistTopicRefresh(TRUE, fail)
        /\ IF fail THEN Return(t, "err:ExistTopic") /\ UNCHANGED topics
           ELSE /\ topics' = topics \cup {call[t].queue}
                /\ Return(t, "nil")
    /\ UNCHANGED <<metaQueues, groupCfg, msgs, call, out, cons, pre, prev>>

\* Lines 129-137.
UpdateExistTopic(t) ==
    /\ pc[t] = "update_existTopic"
    /\ \E fail \in FailChoices :
        /\ Fault(fail)
        /\ ExistTopicRefresh(TRUE, fail)
        /\ IF fail THEN Return(t, "err:ExistTopic")
           ELSE IF ~ExistTopic(call[t].queue, TRUE) THEN Return(t, "NotFound")
           ELSE Return(t, "nil")
    /\ UNCHANGED <<topics, metaQueues, groupCfg, msgs, call, out, cons, pre, prev>>

\* ------------------------------------------------------------------- Delete
\* Lines 143-145: the NotValidf error is discarded, as in Create.
DeleteFirst(queue) == IF Len(queue) = 0 THEN "delete_existTopic" ELSE "delete_existTopic"

CallDelete(t, Qs) ==
    \E q \in Qs : Begin(t, "Delete", q, Empty, NoCfg, DeleteFirst(q))

\* Lines 148-154.
DeleteExistTopic(t) ==
    /\ pc[t] = "delete_existTopic"
    /\ \E fail \in FailChoices :
        /\ Fault(fail)
        /\ ExistTopicRefresh(TRUE, fail)
        /\ IF fail THEN Return(t, "err:ExistTopic")
           ELSE IF ~ExistTopic(call[t].queue, TRUE) THEN Return(t, "NotFound")
           ELSE Goto(t, "delete_existQueue")
    /\ UNCHANGED <<topics, metaQueues, groupCfg, msgs, call, out, cons, pre, prev>>

\* Variant of DeleteExistQueue that goes on to delete the topic when the metadata
\* record is missing.
DeleteExistQueueRepair(t) ==
    /\ pc[t] = "delete_existQueue"
    /\ \E fail \in FailChoices :
        /\ Fault(fail)
        /\ IF fail THEN Return(t, "err:ExistQueue")
           ELSE IF ~ExistQueue(call[t].queue) THEN Goto(t, "delete_deleteTopic")
           ELSE Goto(t, "delete_delQueue")
    /\ UNCHANGED <<stores, msgs, call, out, cons, pre, prev>>

\* Lines 157-163.
DeleteExistQueue(t) ==
    /\ pc[t] = "delete_existQueue"
    /\ \E fail \in FailChoices :
        /\ Fault(fail)
        /\ IF fail THEN Return(t, "err:ExistQueue")
           ELSE IF ~ExistQueue(call[t].queue) THEN Return(t, "NotFound")
           ELSE Goto(t, "delete_delQueue")
    /\ UNCHANGED <<stores, msgs, call, out, cons, pre, prev>>

\* Lines 165-167.
DeleteDelQueue(t) ==
    /\ pc[t] = "delete_delQueue"
    /\ \E fail \in FailChoices :
        /\ Fault(fail)
        /\ IF fail
           THEN Return(t, "err:DelQueue") /\ UNCHANGED metaQueues
           ELSE /\ metaQueues' = metaQueues \ {call[t].queue}
                /\ Goto(t, "delete_deleteTopic")
    /\ UNCHANGED <<topics, cache, groupCfg, msgs, call, out, cons, pre, prev>>

\* Variant of DeleteDeleteTopic that returns without deleting the topic.
DeleteDeleteTopicSkipped(t) ==
    /\ pc[t] = "delete_deleteTopic"
    /\ \E fail \in FailChoices :
        /\ Fault(fail)
        /\ IF fail THEN Return(t, "err:DeleteTopic") ELSE Return(t, "nil")
    /\ UNCHANGED <<stores, msgs, call, out, cons, pre, prev>>

\* Line 168.
DeleteDeleteTopic(t) ==
    /\ pc[t] = "delete_deleteTopic"
    /\ \E fail \in FailChoices :
        /\ Fault(fail)
        /\ IF fail
           THEN Return(t, "err:DeleteTopic") /\ UNCHANGED topics
           ELSE /\ topics' = topics \ {call[t].queue}
                /\ Return(t, "nil")
    /\ UNCHANGED <<cache, metaQueues, groupCfg, msgs, call, out, cons, pre, prev>>

\* ------------------------------------------------- AddGroup / UpdateGroup / DeleteGroup
\* Lines 285-287, 306-308, 326-328: the NotValidf error is discarded, as in Create.
GroupFirst(op, group, queue) ==
    IF Len(group) = 0 \/ Len(queue) = 0 THEN "group_existTopic" ELSE "group_existTopic"

CallAddGroup(t, Qs, Gs) ==
    \E q \in Qs, g \in Gs, c \in Cfgs :
        Begin(t, "AddGroup", q, g, c, GroupFirst("AddGroup", g, q))

CallUpdateGroup(t, Qs, Gs) ==
    \E q \in Qs, g \in Gs, c \in Cfgs :
        Begin(t, "UpdateGroup", q, g, c, GroupFirst("UpdateGroup", g, q))

CallDeleteGroup(t, Qs, Gs) ==
    \E q \in Qs, g \in Gs :
        Begin(t, "DeleteGroup", q, g, NoCfg, GroupFirst("DeleteGroup", g, q))

GroupOps == {"AddGroup", "UpdateGroup", "DeleteGroup"}

\* Variant of GroupExistTopic that forgets the "if !exist" return.
GroupExistTopicNoCheck(t) ==
    /\ pc[t] = "group_existTopic"
    /\ \E fail \in FailChoices :
        /\ Fault(fail)
        /\ ExistTopicRefresh(TRUE, fail)
        /\ IF fail THEN Return(t, "err:ExistTopic")
           ELSE Goto(t, "group_config")
    /\ UNCHANGED <<topics, metaQueues, groupCfg, msgs, call, out, cons, pre, prev>>

\* Lines 289-295, 310-316, 330-336.
GroupExistTopic(t) ==
    /\ pc[t] = "group_existTopic"
    /\ \E fail \in FailChoices :
        /\ Fault(fail)
        /\ ExistTopicRefresh(TRUE, fail)
        /\ IF fail THEN Return(t, "err:ExistTopic")
           ELSE IF ~ExistTopic(call[t].queue, TRUE) THEN Return(t, "NotFound")
           ELSE Goto(t, "group_config")
    /\ UNCHANGED <<topics, metaQueues, groupCfg, msgs, call, out, cons, pre, prev>>

\* kafka.ExtendManager.AddGroupConfig / UpdateGroupConfig / DeleteGroupConfig:
\* the record of <<group, queue>> after a call that succeeds.
GroupConfigAfter(op, c) == IF op = "DeleteGroup" THEN NoCfg ELSE c

\* Lines 297-300, 318-321, 338-342.
GroupConfig(t) ==
    /\ pc[t] = "group_config"
    /\ \E fail \in FailChoices :
        /\ Fault(fail)
        /\ IF fail
           THEN Return(t, "err:GroupConfig") /\ UNCHANGED groupCfg
           ELSE /\ groupCfg' = [groupCfg EXCEPT ![<<call[t].group, call[t].queue>>] =
                                   GroupConfigAfter(call[t].op, call[t].cfg)]
                /\ Return(t, "nil")
    /\ UNCHANGED <<topics, cache, metaQueues, msgs, call, out, cons, pre, prev>>

\* ------------------------------------------------- the metadata store's read calls
NameOrder == <<Empty, NameA, NameAtA>>
SeqOf(S) == SelectSeq(NameOrder, LAMBDA n : n \in S)

RECURSIVE Perms(_)
Perms(S) ==
    IF S = {} THEN {<<>>}
    ELSE UNION {{<<x>> \o p : p \in Perms(S \ {x})} : x \in S}

\* kafka.ExtendManager.GetGroupConfig(group, queue): the record, or nil (present = FALSE).
GetGroupConfig(g, q) ==
    [Group |-> g, Queue |-> q, Write |-> groupCfg[<<g, q>>].write,
     Read |-> groupCfg[<<g, q>>].read, Url |-> groupCfg[<<g, q>>].url,
     Ips |-> groupCfg[<<g, q>>].ips, present |-> groupCfg[<<g, q>>].present]

\* kafka.ExtendManager.GetQueueMap(): queue -> its group names.
QueueMapKeys == metaQueues
QueueMapAt(q) == SeqOf({g \in AllNames : groupCfg[<<g, q>>].present})

\* kafka.ExtendManager.GetGroupMap(): group -> its queue names.
GroupMapKeys == {g \in AllNames : \E q \in AllNames : groupCfg[<<g, q>>].present}
GroupMapAt(g) == SeqOf({q \in AllNames : groupCfg[<<g, q>>].present})

\* kafka.ExtendManager.QueueCreateTime(queue)
QueueCreateTime(q) == <<"ctime", q>>

\* The errors of a store call that failed (not the store's answer for a missing record).
FaultErrs == {"err:GetQueueMap", "err:GetGroupMap", "err:GetGroupConfig",
              "err:QueueCreateTime"}

\* The failures a Lookup / LookupGroup call can meet: none, or one of its store calls.
ReadFailChoices ==
    IF faults < MaxFaults
    THEN {<<"none">>, <<"GetQueueMap">>, <<"GetGroupMap">>}
         \cup {<<"GetGroupConfig", p[1], p[2]>> : p \in AllPairs}
         \cup {<<"QueueCreateTime", q>> : q \in AllNames}
    ELSE {<<"none">>}

\* ------------------------------------------------------------------- Lookup
\* Lines 191-197, 230-236, 259-265: the GroupConfig Lookup builds (no Queue field).
LookupEntry(c) ==
    [Group |-> c.Group, Write |-> c.Write, Read |-> c.Read, Url |-> c.Url, Ips |-> c.Ips]

\* Lines 207-212, 246-251, 272-277.
QueueInfo(q, cfgs) ==
    [Queue |-> q, Ctime |-> QueueCreateTime(q), Length |-> 0, Groups |-> cfgs]

\* Lines 185-201 and 224-240: the loop over a queue's group names, appending to
\* groupConfigs (acc).
RECURSIVE LookupGroupsLoop(_, _, _, _)
LookupGroupsLoop(q, gs, acc, fail) ==
    IF gs = <<>> THEN [err |-> "nil", cfgs |-> acc]
    ELSE IF fail = <<"GetGroupConfig", Head(gs), q>>
    THEN [err |-> "err:GetGroupConfig", cfgs |-> acc]
    ELSE LET c == GetGroupConfig(Head(gs), q)
         IN LookupGroupsLoop(q, Tail(gs),
                IF c.present THEN Append(acc, LookupEntry(c)) ELSE acc, fail)

\* Lines 184-213: the loop over queueMap in the iteration order `order`;
\* groupConfigs (cfgs) is declared once at line 176 and carried from queue to queue.
RECURSIVE LookupAllLoop(_, _, _, _)
LookupAllLoop(order, infos, cfgs, fail) ==
    IF order = <<>> THEN [err |-> "nil", infos |-> infos]
    ELSE LET q == Head(order)
             r == LookupGroupsLoop(q, QueueMapAt(q), cfgs, fail)
         IN IF r.err # "nil" THEN [err |-> r.err, infos |-> infos]
            ELSE IF fail = <<"QueueCreateTime", q>>
            THEN [err |-> "err:QueueCreateTime", infos |-> infos]
            ELSE LookupAllLoop(Tail(order), Append(infos, QueueInfo(q, r.cfgs)),
                               r.cfgs, fail)

\* Lines 178-213.
LookupAll(order, fail) ==
    IF fail = <<"GetQueueMap">> THEN [err |-> "err:GetQueueMap", infos |-> <<>>]
    ELSE LookupAllLoop(order, <<>>, <<>>, fail)

\* Lines 214-251.
LookupQueue(q, fail) ==
    IF fail = <<"GetQueueMap">> THEN [err |-> "err:GetQueueMap", infos |-> <<>>]
    ELSE IF q \notin QueueMapKeys THEN [err |-> "nil", infos |-> <<>>]
    ELSE LET r == LookupGroupsLoop(q, QueueMapAt(q), <<>>, fail)
         IN IF r.err # "nil" THEN [err |-> r.err, infos |-> <<>>]
            ELSE IF fail = <<"QueueCreateTime", q>>
            THEN [err |-> "err:QueueCreateTime", infos |-> <<>>]
            ELSE [err |-> "nil", infos |-> <<QueueInfo(q, r.cfgs)>>]

\* Lines 252-277.  QueueCreateTime of a queue without a metadata record answers
\* with an error or with a zero time (ctimeErr chooses).
LookupOne(q, g, fail, ctimeErr) ==
    IF fail = <<"GetGroupConfig", g, q>> THEN [err |-> "err:GetGroupConfig", infos |-> <<>>]
    ELSE LET c == GetGroupConfig(g, q)
             cfgs == IF c.present THEN <<LookupEntry(c)>> ELSE <<>>
         IN IF fail = <<"QueueCreateTime", q>>
            THEN [err |-> "err:QueueCreateTime", infos |-> <<>>]
            ELSE IF ~ExistQueue(q) /\ ctimeErr
            THEN [err |-> "err:NoQueueRecord", infos |-> <<>>]
            ELSE [err |-> "nil",
                  infos |-> <<[Queue |-> q,
                               Ctime |-> IF ExistQueue(q) THEN QueueCreateTime(q)
                                         ELSE <<"ctime">>,
                               Length |-> 0, Groups |-> cfgs]>>]

CallLookup(t, Qs, Gs) ==
    \E q \in Qs, g \in Gs : Begin(t, "Lookup", q, g, NoCfg, "lookup")

\* Lines 173-280, the switch.
LookupResult(q, g, order, fail, ctimeErr) ==
    IF q = Empty THEN LookupAll(order, fail)
    ELSE IF g = Empty THEN LookupQueue(q, fail)
    ELSE LookupOne(q, g, fail, ctimeErr)

Lookup(t) ==
    /\ pc[t] = "lookup"
    /\ \E order \in Perms(QueueMapKeys), fail \in ReadFailChoices, ctimeErr \in BOOLEAN :
        LET r == LookupResult(call[t].queue, call[t].group, order, fail, ctimeErr)
        IN /\ Return(t, r.err)
           /\ out' = [out EXCEPT ![t] = r.infos]
           /\ faults' = IF r.err \in FaultErrs THEN faults + 1 ELSE faults
    /\ UNCHANGED <<stores, msgs, call, cons, pre, prev>>

\* -------------------------------------------------------------- LookupGroup
\* Lines 364-370 and 397-403: the GroupConfig LookupGroup builds (no Group field).
LookupGroupEntry(c) ==
    [Queue |-> c.Queue, Write |-> c.Write, Read |-> c.Read, Url |-> c.Url, Ips |-> c.Ips]

\* Lines 358-374 and 391-407: the loop over a group's queue names.
RECURSIVE LookupQueuesLoop(_, _, _, _)
LookupQueuesLoop(g, qs, acc, fail) ==
    IF qs = <<>> THEN [err |-> "nil", cfgs |-> acc]
    ELSE IF fail = <<"GetGroupConfig", g, Head(qs)>>
    THEN [err |-> "err:GetGroupConfig", cfgs |-> acc]
    ELSE LET c == GetGroupConfig(g, Head(qs))
         IN LookupQueuesLoop(g, Tail(qs),
                IF c.present THEN Append(acc, LookupGroupEntry(c)) ELSE acc, fail)

\* Lines 357-379: the loop over groupMap in the iteration order `order`;
\* groupConfigs (cfgs) is declared once at line 349 and carried from group to group.
RECURSIVE LookupGroupAllLoop(_, _, _, _)
LookupGroupAllLoop(order, infos, cfgs, fail) ==
    IF order = <<>> THEN [err |-> "nil", infos |-> infos]
    ELSE LET g == Head(order)
             r == LookupQueuesLoop(g, GroupMapAt(g), cfgs, fail)
         IN IF r.err # "nil" THEN [err |-> r.err, infos |-> infos]
            ELSE LookupGroupAllLoop(Tail(order),
                     Append(infos, [Group |-> g, Queues |-> r.cfgs]), r.cfgs, fail)

\* Lines 351-379.
LookupGroupAll(order, fail) ==
    IF fail = <<"GetGroupMap">> THEN [err |-> "err:GetGroupMap", infos |-> <<>>]
    ELSE LookupGroupAllLoop(order, <<>>, <<>>, fail)

\* Lines 380-412.
LookupGroupOne(g, fail) ==
    IF fail = <<"GetGroupMap">> THEN [err |-> "err:GetGroupMap", infos |-> <<>>]
    ELSE IF g \notin GroupMapKeys THEN [err |-> "nil", infos |-> <<>>]
    ELSE LET r == LookupQueuesLoop(g, GroupMapAt(g), <<>>, fail)
         IN IF r.err # "nil" THEN [err |-> r.err, infos |-> <<>>]
            ELSE [err |-> "nil", infos |-> <<[Group |-> g, Queues |-> r.cfgs]>>]

CallLookupGroup(t, Gs) ==
    \E g \in Gs : Begin(t, "LookupGroup", Empty, g, NoCfg, "lookupGroup")

\* Lines 346-414.
LookupGroupResult(g, order, fail) ==
    IF g = Empty THEN LookupGroupAll(order, fail) ELSE LookupGroupOne(g, fail)

LookupGroup(t) ==
    /\ pc[t] = "lookupGroup"
    /\ \E order \in Perms(GroupMapKeys), fail \in ReadFailChoices :
        LET r == LookupGroupResult(call[t].group, order, fail)
        IN /\ Return(t, r.err)
           /\ out' = [out EXCEPT ![t] = r.infos]
           /\ faults' = IF r.err \in FaultErrs THEN faults + 1 ELSE faults
    /\ UNCHANGED <<stores, msgs, call, cons, pre, prev>>

\* ----------------------------------------------------------- GetSingleGroup
CallGetSingleGroup(t, Qs, Gs) ==
    \E q \in Qs, g \in Gs :
        Begin(t, "GetSingleGroup", q, g, NoCfg, "single_existTopic")

\* Lines 418-424.
SingleExistTopic(t) ==
    /\ pc[t] = "single_existTopic"
    /\ \E fail \in FailChoices :
        /\ Fault(fail)
        /\ ExistTopicRefresh(TRUE, fail)
        /\ IF fail THEN Return(t, "err:ExistTopic")
           ELSE IF ~ExistTopic(call[t].queue, TRUE) THEN Return(t, "NotFound")
           ELSE Goto(t, "single_getConfig")
    /\ UNCHANGED <<topics, metaQueues, groupCfg, msgs, call, out, cons, pre, prev>>

\* Line 426.
SingleGetConfig(t) ==
    /\ pc[t] = "single_getConfig"
    /\ \E fail \in FailChoices :
        /\ Fault(fail)
        /\ IF fail
           THEN Return(t, "err:GetGroupConfig") /\ UNCHANGED out
           ELSE LET c == GetGroupConfig(call[t].group, call[t].queue)
                IN /\ Return(t, "nil")
                   /\ out' = [out EXCEPT ![t] = IF c.present THEN <<c>> ELSE <<>>]
    /\ UNCHANGED <<stores, msgs, call, cons, pre, prev>>

\* ------------------------------------------------------------------ SendMsg
RECURSIVE SumOver(_, _)
SumOver(f, S) ==
    IF S = {} THEN 0
    ELSE LET x == CHOOSE y \in S : TRUE IN f[x] + SumOver(f, S \ {x})

\* The sends and receives counted so far, which bounds the calls that count.
StatTotal == SumOver(sendStat, AllPairs) + SumOver(recvStat, AllPairs)

CallSendMsg(t, Qs, Gs) ==
    /\ StatTotal < MaxStat
    /\ \E q \in Qs, g \in Gs : Begin(t, "SendMsg", q, g, NoCfg, "send_existTopic")

\* Variant of SendExistTopic that makes the refreshing check.
SendExistTopicStrict(t) ==
    /\ pc[t] = "send_existTopic"
    /\ \E fail \in FailChoices :
        /\ Fault(fail)
        /\ ExistTopicRefresh(TRUE, fail)
        /\ IF fail THEN Return(t, "err:ExistTopic")
           ELSE IF ~ExistTopic(call[t].queue, TRUE) THEN Return(t, "NotFound")
           ELSE Goto(t, "send_send")
    /\ UNCHANGED <<topics, metaQueues, groupCfg, msgs, call, out, cons, pre, prev>>

\* Lines 431-437.
SendExistTopic(t) ==
    /\ pc[t] = "send_existTopic"
    /\ \E fail \in FailChoices :
        /\ Fault(fail)
        /\ ExistTopicRefresh(FALSE, fail)
        /\ IF fail THEN Return(t, "err:ExistTopic")
           ELSE IF ~ExistTopic(call[t].queue, FALSE) THEN Return(t, "NotFound")
           ELSE Goto(t, "send_send")
    /\ UNCHANGED <<topics, metaQueues, groupCfg, msgs, call, out, cons, pre, prev>>

\* Variant of SendSend that counts the send before producing, so that a failed
\* produce is counted too.
SendSendCountFirst(t) ==
    /\ pc[t] = "send_send"
    /\ \E fail \in FailChoices :
        /\ Fault(fail)
        /\ sendStat' = [sendStat EXCEPT ![<<call[t].queue, call[t].group>>] = @ + 1]
        /\ IF fail THEN Return(t, "err:Send") ELSE Return(t, "nil")
    /\ UNCHANGED <<stores, consumerMap, sessions, mu, recvStat, call, out, cons, pre, prev>>

\* Lines 438-443: producer.Send, then monitor.StatisticSend(queue, group, 1).
SendSend(t) ==
    /\ pc[t] = "send_send"
    /\ \E fail \in FailChoices :
        /\ Fault(fail)
        /\ IF fail
           THEN Return(t, "err:Send") /\ UNCHANGED sendStat
           ELSE /\ sendStat' = [sendStat EXCEPT ![<<call[t].queue, call[t].group>>] = @ + 1]
                /\ Return(t, "nil")
    /\ UNCHANGED <<stores, consumerMap, sessions, mu, recvStat, call, out, cons, pre, prev>>

\* --------------------------------------------------------------- ReceiveMsg
\* Line 456: id := fmt.Sprintf("%s@%s", queue, group)
ConsumerId(queue, group) == queue \o <<"@">> \o group

CallReceiveMsg(t, Qs, Gs) ==
    /\ StatTotal < MaxStat
    /\ \E q \in Qs, g \in Gs : Begin(t, "ReceiveMsg", q, g, NoCfg, "recv_existTopic")

\* Lines 448-454.
RecvExistTopic(t) ==
    /\ pc[t] = "recv_existTopic"
    /\ \E fail \in FailChoices :
        /\ Fault(fail)
        /\ ExistTopicRefresh(FALSE, fail)
        /\ IF fail THEN Return(t, "err:ExistTopic")
           ELSE IF ~ExistTopic(call[t].queue, FALSE) THEN Return(t, "NotFound")
           ELSE Goto(t, "recv_lock")
    /\ UNCHANGED <<topics, metaQueues, groupCfg, msgs, call, out, cons, pre, prev>>

\* Variant of RecvLock that does not wait for the mutex.
RecvLockNoWait(t) ==
    /\ pc[t] = "recv_lock"
    /\ mu' = t
    /\ Goto(t, "recv_get")
    /\ UNCHANGED <<stores, consumerMap, sessions, sendStat, recvStat, faults,
                   call, out, cons, pre, prev>>

\* Line 457: q.mu.Lock() blocks until the mutex is free.
RecvLock(t) ==
    /\ pc[t] = "recv_lock"
    /\ mu = 0
    /\ mu' = t
    /\ Goto(t, "recv_get")
    /\ UNCHANGED <<stores, consumerMap, sessions, sendStat, recvStat, faults,
                   call, out, cons, pre, prev>>

\* Variant of RecvGet that ignores the cached session and always constructs.
RecvGetAlwaysNew(t) ==
    /\ pc[t] = "recv_get"
    /\ Goto(t, "recv_new")
    /\ UNCHANGED <<stores, msgs, faults, call, out, cons, pre, prev>>

\* Lines 458-459: consumer, ok := q.consumerMap[id]
RecvGet(t) ==
    /\ pc[t] = "recv_get"
    /\ LET id == ConsumerId(call[t].queue, call[t].group)
       IN IF id \in DOMAIN consumerMap
          THEN /\ cons' = [cons EXCEPT ![t] = consumerMap[id]]
               /\ Goto(t, "recv_unlock")
          ELSE /\ UNCHANGED cons
               /\ Goto(t, "recv_new")
    /\ UNCHANGED <<stores, msgs, faults, call, out, pre, prev>>

\* Variant of RecvNew that returns the constructor's error with the mutex held.
RecvNewKeepLockOnError(t) ==
    /\ pc[t] = "recv_new"
    /\ \E fail \in FailChoices :
        /\ Fault(fail)
        /\ IF fail
           THEN /\ Return(t, "err:NewConsumer")
                /\ UNCHANGED <<consumerMap, sessions, cons>>
           ELSE LET id == ConsumerId(call[t].queue, call[t].group)
                    c == Len(sessions) + 1
                IN /\ sessions' = Append(sessions,
                                     [queue |-> call[t].queue, group |-> call[t].group])
                   /\ cons' = [cons EXCEPT ![t] = c]
                   /\ consumerMap' = [k \in DOMAIN consumerMap \cup {id} |->
                                         IF k = id THEN c ELSE consumerMap[k]]
                   /\ Goto(t, "recv_unlock")
    /\ UNCHANGED <<stores, mu, sendStat, recvStat, call, out, pre, prev>>

\* Lines 460-466: kafka.NewConsumer; on error unlock and return, else insert.
RecvNew(t) ==
    /\ pc[t] = "recv_new"
    /\ \E fail \in FailChoices :
        /\ Fault(fail)
        /\ IF fail
           THEN /\ mu' = 0
                /\ Return(t, "err:NewConsumer")
                /\ UNCHANGED <<consumerMap, sessions, cons>>
           ELSE LET id == ConsumerId(call[t].queue, call[t].group)
                    c == Len(sessions) + 1
                IN /\ sessions' = Append(sessions,
                                     [queue |-> call[t].queue, group |-> call[t].group])
                   /\ cons' = [cons EXCEPT ![t] = c]
                   /\ consumerMap' = [k \in DOMAIN consumerMap \cup {id} |->
                                         IF k = id THEN c ELSE consumerMap[k]]
                   /\ Goto(t, "recv_unlock")
                   /\ UNCHANGED mu
    /\ UNCHANGED <<stores, sendStat, recvStat, call, out, pre, prev>>

\* Variant of RecvUnlock that leaves the mutex held (an unlock deferred to the
\* end of ReceiveMsg).
RecvUnlockDeferred(t) ==
    /\ pc[t] = "recv_unlock"
    /\ Goto(t, "recv_recv")
    /\ UNCHANGED <<stores, msgs, faults, call, out, cons, pre, prev>>

\* Line 467: q.mu.Unlock()
RecvUnlock(t) ==
    /\ pc[t] = "recv_unlock"
    /\ mu' = 0
    /\ Goto(t, "recv_recv")
    /\ UNCHANGED <<stores, consumerMap, sessions, sendStat, recvStat, faults,
                   call, out, cons, pre, prev>>

\* Lines 469-474: consumer.Recv() blocks until a message or an error arrives;
\* then monitor.StatisticReceive(queue, group, 1).
RecvRecv(t) ==
    /\ pc[t] = "recv_recv"
    /\ \E fail \in FailChoices :
        /\ Fault(fail)
        /\ IF fail
           THEN Return(t, "err:Recv") /\ UNCHANGED <<recvStat, out>>
           ELSE /\ recvStat' = [recvStat EXCEPT ![<<call[t].queue, call[t].group>>] = @ + 1]
                /\ out' = [out EXCEPT ![t] = <<"data">>]
                /\ Return(t, "nil")
    /\ UNCHANGED <<stores, consumerMap, sessions, mu, sendStat, call, cons, pre, prev>>

\* ------------------------------------------------------------------- AckMsg
CallAckMsg(t, Qs, Gs) ==
    \E q \in Qs, g \in Gs : Begin(t, "AckMsg", q, g, NoCfg, "ack")

\* Variant of AckMsg that makes the lenient existence check first.
AckMsgChecked(t) ==
    /\ pc[t] = "ack"
    /\ IF ExistTopic(call[t].queue, FALSE) THEN Return(t, "NotImplemented")
       ELSE Return(t, "NotFound")
    /\ UNCHANGED <<stores, msgs, faults, call, out, cons, pre, prev>>

\* Lines 477-479.
AckMsg(t) ==
    /\ pc[t] = "ack"
    /\ Return(t, "NotImplemented")
    /\ UNCHANGED <<stores, msgs, faults, call, out, cons, pre, prev>>

\* ------------------------------------------- GetSendMetrics / GetReceiveMetrics
CallGetSendMetrics(t, Qs, Gs) ==
    \E q \in Qs, g \in Gs : Begin(t, "GetSendMetrics", q, g, NoCfg, "metrics_existTopic")

CallGetReceiveMetrics(t, Qs, Gs) ==
    \E q \in Qs, g \in Gs : Begin(t, "GetReceiveMetrics", q, g, NoCfg, "metrics_existTopic")

\* Lines 484-490 and 497-503.
MetricsExistTopic(t) ==
    /\ pc[t] = "metrics_existTopic"
    /\ \E fail \in FailChoices :
        /\ Fault(fail)
        /\ ExistTopicRefresh(TRUE, fail)
        /\ IF fail THEN Return(t, "err:ExistTopic")
           ELSE IF ~ExistTopic(call[t].queue, TRUE) THEN Return(t, "NotFound")
           ELSE Goto(t, "metrics_get")
    /\ UNCHANGED <<topics, metaQueues, groupCfg, msgs, call, out, cons, pre, prev>>

\* Lines 492 and 505: the monitor's answer for the pair.
MetricsGet(t) ==
    /\ pc[t] = "metrics_get"
    /\ \E fail \in FailChoices :
        /\ Fault(fail)
        /\ IF fail
           THEN Return(t, "err:GetMetrics") /\ UNCHANGED out
           ELSE /\ Return(t, "nil")
                /\ out' = [out EXCEPT ![t] =
                             IF call[t].op = "GetSendMetrics"
                             THEN <<sendStat[<<call[t].queue, call[t].group>>]>>
                             ELSE <<recvStat[<<call[t].queue, call[t].group>>]>>]
    /\ UNCHANGED <<stores, msgs, call, cons, pre, prev>>

\* Line 57: sConf.Metadata.RefreshFrequency, the client reloads its view of the
\* registry in the background.
MetadataRefresh ==
    /\ cache # topics
    /\ cache' = topics
    /\ UNCHANGED <<topics, metaQueues, groupCfg, msgs, faults, locals>>

\* ------------------------------------------------------------ specifications
LifeNames == {Empty, NameA}

LifecycleStep(t) ==
    \/ CreateExistTopic(t)
    \/ CreateExistQueue(t)
    \/ CreateAddQueue(t)
    \/ CreateCreateTopic(t)
    \/ UpdateExistTopic(t)
    \/ DeleteExistTopic(t)
    \/ DeleteExistQueue(t)
    \/ DeleteDelQueue(t)
    \/ DeleteDeleteTopic(t)

LifecycleStepCD(t) ==
    \/ CreateExistTopic(t)
    \/ CreateExistQueue(t)
    \/ CreateAddQueue(t)
    \/ CreateCreateTopic(t)
    \/ DeleteExistTopic(t)
    \/ DeleteExistQueue(t)
    \/ DeleteDelQueue(t)
    \/ DeleteDeleteTopic(t)

GroupStep(t) ==
    \/ GroupExistTopic(t)
    \/ GroupConfig(t)
    \/ SingleExistTopic(t)
    \/ SingleGetConfig(t)

LookupStep(t) ==
    \/ Lookup(t)
    \/ LookupGroup(t)

GroupNames == {NameA}

\* One caller at a time: the facade's lifecycle, group and lookup methods used
\* sequentially, from empty stores.
Next ==
    \/ /\ \/ CallCreate(1, LifeNames)
          \/ CallUpdate(1, LifeNames)
          \/ CallDelete(1, LifeNames)
          \/ CallAddGroup(1, LifeNames, GroupNames)
          \/ CallUpdateGroup(1, LifeNames, GroupNames)
          \/ CallDeleteGroup(1, LifeNames, GroupNames)
          \/ CallLookup(1, LifeNames, GroupNames \cup {Empty})
          \/ CallLookupGroup(1, GroupNames \cup {Empty})
          \/ CallGetSingleGroup(1, LifeNames, GroupNames)
       /\ TrackPre(1)
       /\ UNCHANGED prev
    \/ LifecycleStep(1)
    \/ GroupStep(1)
    \/ LookupStep(1)

Spec == Init /\ [][Next]_vars

MessageStep(t) ==
    \/ SendExistTopic(t)
    \/ SendSend(t)
    \/ RecvExistTopic(t)
    \/ RecvLock(t)
    \/ RecvGet(t)
    \/ RecvNew(t)
    \/ RecvUnlock(t)
    \/ RecvRecv(t)

MsgQueues == {NameA}
MsgGroups == {NameA, NameAtA}

\* Concurrent callers: receives racing each other, queue creation and deletion,
\* and the client's background refresh.
NextRecv ==
    \/ \E t \in Threads :
        \/ /\ \/ CallCreate(t, MsgQueues)
              \/ CallDelete(t, MsgQueues)
              \/ CallReceiveMsg(t, MsgQueues, MsgGroups)
           /\ UNCHANGED <<pre, prev>>
        \/ LifecycleStepCD(t)
        \/ RecvExistTopic(t)
        \/ RecvLock(t)
        \/ RecvGet(t)
        \/ RecvNew(t)
        \/ RecvUnlock(t)
        \/ RecvRecv(t)
    \/ MetadataRefresh

SpecRecv == Init /\ [][NextRecv]_vars

\* Concurrent callers on one key: receives, queue creation and deletion, with
\* the history of each goroutine's previous call kept.
NextEvict ==
    \/ \E t \in Threads :
        \/ /\ \/ CallCreate(t, MsgQueues)
              \/ CallDelete(t, MsgQueues)
              \/ CallReceiveMsg(t, MsgQueues, {NameA})
           /\ TrackPrev(t)
           /\ UNCHANGED pre
        \/ LifecycleStepCD(t)
        \/ RecvExistTopic(t)
        \/ RecvLock(t)
        \/ RecvGet(t)
        \/ RecvNew(t)
        \/ RecvUnlock(t)
        \/ RecvRecv(t)
    \/ MetadataRefresh

SpecEvict == Init /\ [][NextEvict]_vars

\* One caller at a time, lifecycle methods only, with the history of the
\* previous call kept.
NextLife ==
    \/ /\ \/ CallCreate(1, LifeNames)
          \/ CallUpdate(1, LifeNames)
          \/ CallDelete(1, LifeNames)
       /\ TrackPre(1)
       /\ TrackPrev(1)
    \/ LifecycleStep(1)

SpecLife == Init /\ [][NextLife]_vars

\* Concurrent callers of the message gateway: sends, receives, acks and metrics
\* reads on one queue, with queue creation and deletion and the client's
\* background refresh.
NextMsg ==
    \/ \E t \in Threads :
        \/ /\ \/ CallCreate(t, MsgQueues)
              \/ CallDelete(t, MsgQueues)
              \/ CallSendMsg(t, MsgQueues, {NameA})
              \/ CallReceiveMsg(t, MsgQueues, {NameA})
              \/ CallAckMsg(t, AllNames, {Empty, NameA})
              \/ CallGetSendMetrics(t, MsgQueues, {NameA})
              \/ CallGetReceiveMetrics(t, MsgQueues, {NameA})
           /\ UNCHANGED <<pre, prev>>
        \/ LifecycleStepCD(t)
        \/ MessageStep(t)
        \/ AckMsg(t)
        \/ MetricsExistTopic(t)
        \/ MetricsGet(t)
    \/ MetadataRefresh

SpecMsg == Init /\ [][NextMsg]_vars

\* One caller of every method that checks queue existence, with the client's
\* background refresh and the history of the previous call kept.
NextStale ==
    \/ /\ \/ CallCreate(1, MsgQueues)
          \/ CallUpdate(1, MsgQueues)
          \/ CallDelete(1, MsgQueues)
          \/ CallAddGroup(1, MsgQueues, GroupNames)
          \/ CallUpdateGroup(1, MsgQueues, GroupNames)
          \/ CallDeleteGroup(1, MsgQueues, GroupNames)
          \/ CallSendMsg(1, MsgQueues, GroupNames)
          \/ CallReceiveMsg(1, MsgQueues, GroupNames)
          \/ CallGetSendMetrics(1, MsgQueues, GroupNames)
          \/ CallGetReceiveMetrics(1, MsgQueues, GroupNames)
       /\ TrackPrev(1)
       /\ UNCHANGED pre
    \/ LifecycleStep(1)
    \/ GroupExistTopic(1)
    \/ GroupConfig(1)
    \/ MessageStep(1)
    \/ MetricsExistTopic(1)
    \/ MetricsGet(1)
    \/ MetadataRefresh

SpecStale == Init /\ [][NextStale]_vars

\* One caller building up several queues and groups and listing them.
ListNames == {NameA, NameAtA}

NextList ==
    \/ /\ \/ CallCreate(1, ListNames)
          \/ CallAddGroup(1, ListNames, ListNames)
          \/ CallDeleteGroup(1, ListNames, ListNames)
          \/ CallLookup(1, ListNames \cup {Empty}, ListNames \cup {Empty})
          \/ CallLookupGroup(1, ListNames \cup {Empty})
       /\ UNCHANGED <<pre, prev>>
    \/ CreateExistTopic(1)
    \/ CreateExistQueue(1)
    \/ CreateAddQueue(1)
    \/ CreateCreateTopic(1)
    \/ GroupExistTopic(1)
    \/ GroupConfig(1)
    \/ LookupStep(1)

SpecList == Init /\ [][NextList]_vars

\* Concurrent callers of Create and Delete on one queue, with the stores as each
\* call began kept.
NextRace ==
    \E t \in Threads :
        \/ /\ \/ CallCreate(t, MsgQueues)
              \/ CallDelete(t, MsgQueues)
           /\ TrackPre(t)
           /\ UNCHANGED prev
        \/ LifecycleStepCD(t)

SpecRace == Init /\ [][NextRace]_vars

\* Concurrent receivers on queues and groups whose names may contain "@", with
\* queue creation and the client's background refresh.
NextKeys ==
    \/ \E t \in Threads :
        \/ /\ \/ CallCreate(t, ListNames)
              \/ CallReceiveMsg(t, ListNames, ListNames)
           /\ UNCHANGED <<pre, prev>>
        \/ CreateExistTopic(t)
        \/ CreateExistQueue(t)
        \/ CreateAddQueue(t)
        \/ CreateCreateTopic(t)
        \/ RecvExistTopic(t)
        \/ RecvLock(t)
        \/ RecvGet(t)
        \/ RecvNew(t)
        \/ RecvUnlock(t)
        \/ RecvRecv(t)
    \/ MetadataRefresh

SpecKeys == Init /\ [][NextKeys]_vars

\* One caller of the methods that only read (Update, the lookups, the metrics
\* reads) on a service that other calls of the same caller fill: queues, groups,
\* a cached session, counters.
ReadOps == {"Update", "Lookup", "LookupGroup", "GetSingleGroup",
            "GetSendMetrics", "GetReceiveMetrics"}

NextFrame ==
    \/ /\ \/ CallCreate(1, MsgQueues)
          \/ CallDelete(1, MsgQueues)
          \/ CallAddGroup(1, MsgQueues, GroupNames)
          \/ CallSendMsg(1, MsgQueues, GroupNames)
          \/ CallReceiveMsg(1, MsgQueues, GroupNames)
          \/ CallUpdate(1, MsgQueues)
          \/ CallLookup(1, MsgQueues \cup {Empty}, GroupNames \cup {Empty})
          \/ CallLookupGroup(1, GroupNames \cup {Empty})
          \/ CallGetSingleGroup(1, MsgQueues, GroupNames)
          \/ CallGetSendMetrics(1, MsgQueues, GroupNames)
          \/ CallGetReceiveMetrics(1, MsgQueues, GroupNames)
       /\ UNCHANGED <<pre, prev>>
    \/ LifecycleStep(1)
    \/ GroupStep(1)
    \/ LookupStep(1)
    \/ MessageStep(1)
    \/ MetricsExistTopic(1)
    \/ MetricsGet(1)
    \/ MetadataRefresh

SpecFrame == Init /\ [][NextFrame]_vars

\* ====================================================================== claims
StoresUnchanged(t) ==
    /\ topics = pre[t].topics
    /\ metaQueues = pre[t].metaQueues
    /\ groupCfg = pre[t].groupCfg

InOneStoreOnly(t) ==
    (call[t].queue \in pre[t].topics) # (call[t].queue \in pre[t].metaQueues)

\* C1: however many ReceiveMsg calls race on a key the cache does not hold, at
\* most one session is ever constructed for a key, the cache maps the key to that
\* one session, and every call past the lookup-or-create step receives on it.
SessionsFor(k) ==
    {i \in 1..Len(sessions) : ConsumerId(sessions[i].queue, sessions[i].group) = k}

C1_OneSessionPerKey ==
    /\ \A i, j \in 1..Len(sessions) :
         ConsumerId(sessions[i].queue, sessions[i].group)
           = ConsumerId(sessions[j].queue, sessions[j].group) => i = j
    /\ \A k \in DOMAIN consumerMap : SessionsFor(k) = {consumerMap[k]}
    /\ \A t \in Threads :
         pc[t] \in {"recv_unlock", "recv_recv"} =>
            LET id == ConsumerId(call[t].queue, call[t].group)
            IN id \in DOMAIN consumerMap /\ cons[t] = consumerMap[id]

\* Two calls for the same key, both past the existence check before any session
\* existed, now both blocked in receive on the one session constructed.
C1_Witness ==
    /\ pc[1] = "recv_recv" /\ pc[2] = "recv_recv"
    /\ call[1].group = call[2].group
    /\ cons[1] = cons[2]
    /\ Len(sessions) = 1

\* C2: a call of Create, Update, Delete or Lookup for a queue that is in exactly
\* one of the two stores returns an error.
C2_InconsistentQueueFails ==
    \A t \in Threads :
        (/\ pc[t] = "idle"
         /\ call[t].op \in {"Create", "Update", "Delete", "Lookup"}
         /\ call[t].queue # Empty
         /\ InOneStoreOnly(t))
        => ret[t] # "nil"

\* C3: Create, Update and Delete with an empty queue name, and AddGroup,
\* UpdateGroup and DeleteGroup with an empty group or queue name, return NotValid.
C3_EmptyNameNotValid ==
    \A t \in Threads :
        (/\ pc[t] = "idle"
         /\ \/ call[t].op \in {"Create", "Update", "Delete"} /\ call[t].queue = Empty
            \/ call[t].op \in GroupOps /\ (call[t].queue = Empty \/ call[t].group = Empty))
        => ret[t] = "NotValid"

\* C4 as stated (for a non-empty name): Create of a queue present in either
\* store returns AlreadyExists and writes nothing.
C4_CreateExistingAlreadyExists ==
    \A t \in Threads :
        (/\ Returned(t, "Create")
         /\ call[t].queue # Empty
         /\ (call[t].queue \in pre[t].topics \/ call[t].queue \in pre[t].metaQueues))
        => ret[t] = "AlreadyExists" /\ StoresUnchanged(t)

\* C4 as amended: Create of a queue present in either store writes nothing and
\* returns AlreadyExists, or the error of an existence check that itself failed
\* (the registry's check, or the metadata check when only the metadata store
\* holds the queue).
C4_CreateExistingRejected ==
    \A t \in Threads :
        (/\ Returned(t, "Create")
         /\ (call[t].queue \in pre[t].topics \/ call[t].queue \in pre[t].metaQueues))
        => /\ StoresUnchanged(t)
           /\ ret[t] \in {"AlreadyExists", "err:ExistTopic", "err:ExistQueue"}
           /\ ret[t] = "err:ExistQueue" => call[t].queue \notin pre[t].topics
           /\ (call[t].queue \in topics) = (call[t].queue \in pre[t].topics)
           /\ (call[t].queue \in metaQueues) = (call[t].queue \in pre[t].metaQueues)

\* A Create of a queue that both stores hold has returned AlreadyExists.
C4_Witness ==
    /\ Returned(1, "Create")
    /\ call[1].queue \in pre[1].topics /\ call[1].queue \in pre[1].metaQueues
    /\ ret[1] = "AlreadyExists"

\* C5: with no store failures, Delete(q) right after a successful Create(q)
\* succeeds and leaves q in neither store, and Delete(q) right after that
\* successful Delete(q) returns NotFound and changes nothing.
C5_CreateDeleteRoundTrip ==
    \A t \in Threads :
        (Returned(t, "Delete") /\ faults = 0 /\ prev[t].queue = call[t].queue) =>
            /\ (prev[t].op = "Create" /\ prev[t].ret = "nil") =>
                  /\ ret[t] = "nil"
                  /\ call[t].queue \notin topics
                  /\ call[t].queue \notin metaQueues
            /\ (prev[t].op = "Delete" /\ prev[t].ret = "nil") =>
                  /\ ret[t] = "NotFound"
                  /\ StoresUnchanged(t)
                  /\ call[t].queue \notin topics
                  /\ call[t].queue \notin metaQueues

\* The second Delete of the round trip has returned NotFound.
C5_Witness ==
    /\ Returned(1, "Delete") /\ faults = 0
    /\ prev[1] = [op |-> "Delete", queue |-> call[1].queue, ret |-> "nil"]
    /\ ret[1] = "NotFound"

\* C6: Create and Delete act on the metadata store first and the registry second
\* and never compensate: when the registry step fails the call returns that error
\* and the metadata write stays; when the metadata step fails the registry is
\* untouched.
C6_MetadataFirstNoCompensation ==
    \A t \in Threads :
        /\ pc[t] = "create_createTopic" =>
              call[t].queue \in metaQueues /\ topics = pre[t].topics
        /\ pc[t] = "delete_deleteTopic" =>
              call[t].queue \notin metaQueues /\ topics = pre[t].topics
        /\ (Returned(t, "Create") /\ ret[t] = "err:CreateTopic") =>
              /\ call[t].queue \in metaQueues
              /\ call[t].queue \notin pre[t].metaQueues
              /\ topics = pre[t].topics
        /\ (Returned(t, "Delete") /\ ret[t] = "err:DeleteTopic") =>
              /\ call[t].queue \notin metaQueues
              /\ call[t].queue \in pre[t].metaQueues
              /\ topics = pre[t].topics
        /\ (Returned(t, "Create") /\ ret[t] = "err:AddQueue") => StoresUnchanged(t)
        /\ (Returned(t, "Delete") /\ ret[t] = "err:DelQueue") => StoresUnchanged(t)
        /\ (Returned(t, "Create") /\ call[t].queue \notin pre[t].metaQueues
              /\ call[t].queue \in metaQueues /\ call[t].queue \notin topics)
           => ret[t] = "err:CreateTopic"
        /\ (Returned(t, "Delete") /\ call[t].queue \in pre[t].metaQueues
              /\ call[t].queue \notin metaQueues /\ call[t].queue \in topics)
           => ret[t] = "err:DeleteTopic"

\* A Delete whose registry step failed has returned, its metadata record gone.
C6_Witness ==
    /\ Returned(1, "Delete") /\ ret[1] = "err:DeleteTopic"
    /\ call[1].queue \in topics /\ call[1].queue \notin metaQueues

\* C7 as stated (for a non-empty queue name): a group operation for a queue
\* without a registry record returns NotFound and leaves the metadata store
\* unchanged.
C7_GroupOpMissingQueueNotFound ==
    \A t \in Threads :
        (/\ pc[t] = "idle" /\ call[t].op \in GroupOps
         /\ call[t].queue # Empty
         /\ call[t].queue \notin pre[t].topics)
        => ret[t] = "NotFound" /\ StoresUnchanged(t)

\* C7 as amended: a group operation for a queue without a registry record leaves
\* the metadata store unchanged and returns NotFound, or the registry's error when
\* the existence check itself failed.
C7_GroupOpMissingQueueRejected ==
    \A t \in Threads :
        (/\ pc[t] = "idle" /\ call[t].op \in GroupOps
         /\ call[t].queue \notin pre[t].topics)
        => /\ ret[t] \in {"NotFound", "err:ExistTopic"}
           /\ StoresUnchanged(t)

\* UpdateGroup for a queue that only the metadata store holds, where a group
\* record exists, has returned NotFound.
C7_Witness ==
    /\ Returned(1, "UpdateGroup") /\ ret[1] = "NotFound"
    /\ call[1].queue \in metaQueues /\ call[1].queue \notin topics
    /\ groupCfg[<<call[1].group, call[1].queue>>].present

\* C8: every group config that Lookup or LookupGroup (called for a named queue
\* or group) or GetSingleGroup returns belongs to a queue that has a registry
\* record (configs of the queue with the empty name aside).
C8_GroupReadsNeedTopic ==
    \A t \in Threads :
        (pc[t] = "idle" /\ ret[t] = "nil") =>
            /\ (call[t].op = "Lookup" /\ call[t].queue # Empty) =>
                  \A i \in 1..Len(out[t]) :
                      out[t][i].Groups # <<>> => out[t][i].Queue \in topics
            /\ (call[t].op = "LookupGroup" /\ call[t].group # Empty) =>
                  \A i \in 1..Len(out[t]) :
                      \A j \in 1..Len(out[t][i].Queues) :
                          out[t][i].Queues[j].Queue \in topics \cup {Empty}
            /\ call[t].op = "GetSingleGroup" =>
                  \A i \in 1..Len(out[t]) : out[t][i].Queue \in topics

\* C9: a key once in the cache stays mapped to the same session, whatever step
\* any call takes (Delete's included), and a ReceiveMsg that finds the key cached
\* takes the cached session and constructs none.
C9_SessionSticks ==
    [][/\ \A k \in DOMAIN consumerMap :
            k \in DOMAIN consumerMap' /\ consumerMap'[k] = consumerMap[k]
       /\ \A t \in Threads :
            (/\ pc[t] = "recv_get" /\ pc'[t] # "recv_get"
             /\ ConsumerId(call[t].queue, call[t].group) \in DOMAIN consumerMap)
            => /\ cons'[t] = consumerMap[ConsumerId(call[t].queue, call[t].group)]
               /\ pc'[t] = "recv_unlock"
               /\ sessions' = sessions]_vars

\* A goroutine received on a session, then deleted the session's queue with
\* success: the key is still mapped to that session.
C9_Witness ==
    \E t \in Threads :
        /\ Returned(t, "Delete") /\ ret[t] = "nil"
        /\ prev[t] = [op |-> "ReceiveMsg", queue |-> call[t].queue, ret |-> "nil"]
        /\ call[t].queue \notin topics /\ call[t].queue \notin metaQueues
        /\ ConsumerId(call[t].queue, NameA) \in DOMAIN consumerMap

\* C10: the cache lock is held only between Lock and Unlock, never by a call
\* that is in the blocking receive, so a call blocked in receive keeps no other
\* call from locking.
C10_NoLockAcrossReceive ==
    /\ mu \in Threads => pc[mu] \in {"recv_get", "recv_new", "recv_unlock"}
    /\ \A t \in Threads : pc[t] \in {"recv_recv", "idle", "recv_lock"} => mu # t
    /\ (\A t \in Threads : pc[t] \notin {"recv_get", "recv_new", "recv_unlock"}) => mu = 0

\* One call is blocked in receive while another holds the lock.
C10_Witness ==
    \E t, u \in Threads : t # u /\ pc[t] = "recv_recv" /\ mu = u /\ pc[u] = "recv_new"

\* C11: a SendMsg (ReceiveMsg) that returns success adds exactly 1 to the send
\* (receive) counter of its pair and changes no other counter; a SendMsg or
\* ReceiveMsg that returns an error, and every other step, changes no counter.
Pair(t) == <<call[t].queue, call[t].group>>

Returns(t, op) == pc[t] # "idle" /\ pc'[t] = "idle" /\ call[t].op = op

C11_CountersCountSuccesses ==
    [][/\ \A t \in Threads :
            /\ (Returns(t, "SendMsg") /\ ret'[t] = "nil") =>
                  /\ sendStat' = [sendStat EXCEPT ![Pair(t)] = @ + 1]
                  /\ recvStat' = recvStat
            /\ (Returns(t, "ReceiveMsg") /\ ret'[t] = "nil") =>
                  /\ recvStat' = [recvStat EXCEPT ![Pair(t)] = @ + 1]
                  /\ sendStat' = sendStat
            /\ (Returns(t, "SendMsg") /\ ret'[t] # "nil") =>
                  sendStat' = sendStat /\ recvStat' = recvStat
            /\ (Returns(t, "ReceiveMsg") /\ ret'[t] # "nil") =>
                  sendStat' = sendStat /\ recvStat' = recvStat
       /\ sendStat' # sendStat => \E t \in Threads : Returns(t, "SendMsg") /\ ret'[t] = "nil"
       /\ recvStat' # recvStat => \E t \in Threads : Returns(t, "ReceiveMsg") /\ ret'[t] = "nil"
      ]_vars

\* One goroutine's SendMsg has succeeded and the other's ReceiveMsg has failed in
\* the receive: the pair's send counter is 1 and its receive counter 0.
C11_Witness ==
    /\ Returned(1, "SendMsg") /\ ret[1] = "nil"
    /\ Returned(2, "ReceiveMsg") /\ ret[2] = "err:Recv"
    /\ Pair(1) = Pair(2)
    /\ sendStat[Pair(1)] = 1
    /\ recvStat[Pair(1)] = 0

\* C12: when the existence check answers, SendMsg and ReceiveMsg pass it exactly
\* when the client's cached view holds the queue, whatever the registry holds,
\* while Create, Update, Delete, the group operations and the two metrics reads
\* decide by the registry's current topics, whatever the cached view holds.
Answered(t, step) == pc[t] = step /\ pc'[t] # step /\ faults' = faults

Ends(t, err) == pc'[t] = "idle" /\ ret'[t] = err

C12_LenientVersusStrict ==
    [][\A t \in Threads :
        LET q == call[t].queue IN
        /\ Answered(t, "send_existTopic") =>
              IF q \in cache THEN pc'[t] = "send_send" ELSE Ends(t, "NotFound")
        /\ Answered(t, "recv_existTopic") =>
              IF q \in cache THEN pc'[t] = "recv_lock" ELSE Ends(t, "NotFound")
        /\ Answered(t, "metrics_existTopic") =>
              IF q \in topics THEN pc'[t] = "metrics_get" ELSE Ends(t, "NotFound")
        /\ Answered(t, "create_existTopic") =>
              IF q \in topics THEN Ends(t, "AlreadyExists")
              ELSE pc'[t] = "create_existQueue"
        /\ Answered(t, "update_existTopic") =>
              IF q \in topics THEN Ends(t, "nil") ELSE Ends(t, "NotFound")
        /\ Answered(t, "delete_existTopic") =>
              IF q \in topics THEN pc'[t] = "delete_existQueue" ELSE Ends(t, "NotFound")
        /\ Answered(t, "group_existTopic") =>
              IF q \in topics THEN pc'[t] = "group_config" ELSE Ends(t, "NotFound")
      ]_vars

\* SendMsg succeeded for a queue and the very next call, GetSendMetrics for the
\* same queue, returned NotFound: the queue was in the cached view only.
C12_Witness ==
    /\ Returned(1, "GetSendMetrics") /\ ret[1] = "NotFound"
    /\ prev[1] = [op |-> "SendMsg", queue |-> call[1].queue, ret |-> "nil"]
    /\ call[1].queue \notin topics

\* C13: Lookup("", "") returns one record per queue of the queue-to-groups index,
\* each holding exactly the configs of that queue's groups, and LookupGroup("")
\* returns one record per group, each holding exactly the configs of that group's
\* queues.
Range(f) == {f[i] : i \in 1..Len(f)}

C13_ListAllExact ==
    \A t \in Threads :
        /\ (Returned(t, "Lookup") /\ call[t].queue = Empty /\ call[t].group = Empty
              /\ ret[t] = "nil") =>
              /\ Len(out[t]) = Cardinality(QueueMapKeys)
              /\ {r.Queue : r \in Range(out[t])} = QueueMapKeys
              /\ \A r \in Range(out[t]) :
                    /\ Len(r.Groups) = Len(QueueMapAt(r.Queue))
                    /\ Range(r.Groups) =
                          {LookupEntry(GetGroupConfig(g, r.Queue)) :
                              g \in Range(QueueMapAt(r.Queue))}
        /\ (Returned(t, "LookupGroup") /\ call[t].group = Empty /\ ret[t] = "nil") =>
              /\ Len(out[t]) = Cardinality(GroupMapKeys)
              /\ {r.Group : r \in Range(out[t])} = GroupMapKeys
              /\ \A r \in Range(out[t]) :
                    /\ Len(r.Queues) = Len(GroupMapAt(r.Group))
                    /\ Range(r.Queues) =
                          {LookupGroupEntry(GetGroupConfig(r.Group, q)) :
                              q \in Range(GroupMapAt(r.Group))}

\* C14: a Lookup or LookupGroup that returns an error returns an empty list with
\* it, never records collected before the failure.
C14_ErrorWithoutPartialResults ==
    \A t \in Threads :
        (/\ pc[t] = "idle"
         /\ call[t].op \in {"Lookup", "LookupGroup"}
         /\ ret[t] # "nil")
        => out[t] = <<>>

\* C15: AckMsg returns NotImplemented whatever its arguments and whatever the
\* stores hold, and its step changes no store, no cached session and no counter.
C15_AckNotImplemented ==
    [][\A t \in Threads :
        (pc[t] = "ack" /\ pc'[t] # "ack") =>
            /\ pc'[t] = "idle" /\ ret'[t] = "NotImplemented"
            /\ UNCHANGED <<topics, cache, metaQueues, groupCfg, consumerMap, sessions,
                           mu, sendStat, recvStat, faults>>
      ]_vars

\* AckMsg has returned NotImplemented both for a queue that both stores hold and
\* for a name that neither store holds.
C15_Witness ==
    /\ Returned(1, "AckMsg") /\ ret[1] = "NotImplemented"
    /\ call[1].queue \in topics /\ call[1].queue \in metaQueues
    /\ Returned(2, "AckMsg") /\ ret[2] = "NotImplemented"
    /\ call[2].queue \notin topics /\ call[2].queue \notin metaQueues

\* C16: a ReceiveMsg whose session construction fails returns the constructor's
\* error, inserts nothing into the cache and releases the lock in that step; a
\* ReceiveMsg that finds its key absent from the cache goes on to construct.
C16_FailedConstructionLeavesNothing ==
    [][\A t \in Threads :
        LET id == ConsumerId(call[t].queue, call[t].group) IN
        /\ (pc[t] = "recv_new" /\ pc'[t] = "idle") =>
              /\ ret'[t] = "err:NewConsumer"
              /\ consumerMap' = consumerMap /\ sessions' = sessions
              /\ mu = t /\ mu' = 0
        /\ (pc[t] = "recv_get" /\ pc'[t] # "recv_get" /\ id \notin DOMAIN consumerMap) =>
              pc'[t] = "recv_new"
        /\ (pc[t] = "recv_new" /\ pc'[t] = "recv_unlock") =>
              /\ id \notin DOMAIN consumerMap
              /\ Len(sessions') = Len(sessions) + 1
              /\ consumerMap'[id] = Len(sessions')
      ]_vars

\* A goroutine whose previous ReceiveMsg failed in construction holds the lock
\* again for the same key, which is still absent, and is about to construct.
C16_Witness ==
    \E t \in Threads :
        /\ pc[t] = "recv_new" /\ mu = t
        /\ call[t].op = "ReceiveMsg"
        /\ prev[t] = [op |-> "ReceiveMsg", queue |-> call[t].queue, ret |-> "err:NewConsumer"]
        /\ ConsumerId(call[t].queue, call[t].group) \notin DOMAIN consumerMap

\* C17: a queue that is in exactly one store while no call is running, or since
\* the running call began, stays in that store and out of the other whatever
\* step is taken; and a Create of it whose store calls all answer returns
\* AlreadyExists, a Delete of it NotFound.
Disagree(q) == (q \in topics) # (q \in metaQueues)

DisagreedAtCall(t, q) == (q \in pre[t].topics) # (q \in pre[t].metaQueues)

C17_DisagreementPersists ==
    [][/\ \A q \in AllNames :
            (Disagree(q) /\ \A t \in Threads : pc[t] = "idle" \/ DisagreedAtCall(t, q)) =>
                /\ (q \in topics') = (q \in topics)
                /\ (q \in metaQueues') = (q \in metaQueues)
       /\ \A t \in Threads :
            (/\ pc[t] # "idle" /\ pc'[t] = "idle"
             /\ DisagreedAtCall(t, call[t].queue)
             /\ faults' = faults) =>
                /\ call[t].op = "Create" => ret'[t] = "AlreadyExists"
                /\ call[t].op = "Delete" => ret'[t] = "NotFound"
      ]_vars

\* Delete of a queue that only the registry holds has returned NotFound and the
\* queue is still in the registry only.
C17_Witness ==
    /\ Returned(1, "Delete") /\ ret[1] = "NotFound"
    /\ call[1].queue \in pre[1].topics /\ call[1].queue \notin pre[1].metaQueues
    /\ call[1].queue \in topics /\ call[1].queue \notin metaQueues

\* C18: of the Create calls running concurrently for one queue, at most one is
\* past both existence checks (at the AddQueue or CreateTopic step) at a time.
C18_OneCreatePassesChecks ==
    \A t, u \in Threads :
        (/\ call[t].op = "Create" /\ call[u].op = "Create"
         /\ call[t].queue = call[u].queue
         /\ pc[t] \in {"create_addQueue", "create_createTopic"}
         /\ pc[u] \in {"create_addQueue", "create_createTopic"})
        => t = u

\* C19: the session a ReceiveMsg call receives on was constructed for that
\* call's queue and group, so calls for different pairs never receive on the
\* same session.
C19_SessionOfOwnPair ==
    \A t \in Threads :
        pc[t] \in {"recv_unlock", "recv_recv"} =>
            /\ sessions[cons[t]].queue = call[t].queue
            /\ sessions[cons[t]].group = call[t].group

\* C20: no step of Update, Lookup, LookupGroup, GetSingleGroup, GetSendMetrics or
\* GetReceiveMetrics changes the registry, the metadata store, the session cache
\* or a counter.
ReadOpsChangeNothing ==
    \A t \in Threads :
        (call[t].op \in ReadOps /\ pc[t] # "idle" /\ pc'[t] # pc[t]) =>
            UNCHANGED <<topics, metaQueues, groupCfg, consumerMap, sessions, mu,
                        sendStat, recvStat>>

UpdateReturns(t) == pc[t] = "update_existTopic" /\ pc'[t] = "idle"

\* C20 as stated: the read-only methods change nothing, and Update returns nil
\* when the queue has a registry record and NotFound otherwise.
C20_ReadOnlyUpdateByRegistry ==
    [][/\ ReadOpsChangeNothing
       /\ \A t \in Threads :
            UpdateReturns(t) =>
                ret'[t] = IF call[t].queue \in topics THEN "nil" ELSE "NotFound"
      ]_vars

\* C20 as amended: the read-only methods change nothing, and Update returns the
\* registry's error when its existence check fails, and otherwise nil when the
\* queue has a registry record and NotFound when it has none.
C20_ReadOnlyUpdateByAnsweredCheck ==
    [][/\ ReadOpsChangeNothing
       /\ \A t \in Threads :
            UpdateReturns(t) =>
                ret'[t] = IF faults' # faults THEN "err:ExistTopic"
                          ELSE IF call[t].queue \in topics THEN "nil" ELSE "NotFound"
      ]_vars

\* Update has returned nil for a queue with a registry record on a service that
\* holds a group record, a cached session and a counted receive.
C20_Witness ==
    /\ Returned(1, "Update") /\ ret[1] = "nil"
    /\ call[1].queue \in topics
    /\ groupCfg[<<NameA, call[1].queue>>].present
    /\ ConsumerId(call[1].queue, NameA) \in DOMAIN consumerMap
    /\ recvStat[<<call[1].queue, NameA>>] = 1

====
